---- MODULE Spec2Model ----
(***************************************************************************)
(* Minecraft-Server-Hibernation-Plus: the connection handler, the proxy    *)
(* relays, the lifecycle controller (servctrl) and the segment manager.    *)
(*                                                                         *)
(* lib/conn (HandlerClientConn, openProxy, forwardTCP), main and           *)
(* progmgr.sgmMgr are translated from the source.  Every access to a field *)
(* of servstats.Stats that the source performs without a lock is one step  *)
(* of its own, so that other goroutines interleave between two accesses.   *)
(* lib/servctrl (WarmMS, FreezeMS, FreezeMSSchedule, CheckMSWarm) is       *)
(* modelled from the lifecycle controller's documented contract.           *)
(***************************************************************************)
EXTENDS Integers, FiniteSets, Sequences

\* ---------------------------------------------------------------- bounds
\* number of client slots that can be connected at the same time
NClients == 2
\* number of client connections accepted in one behaviour
MaxConns == 2
\* idle duration of the freeze timer, in ticks
IdleTicks == 2
\* seconds counted by one segment before it is reset
MaxDur == 2
\* bytes counted by a data-usage counter before it is printed and reset
MaxBytes == 2
\* length of a version string
MaxVerLen == 5

Clients == 1..NClients
\* process 0 is main (the startup pre-warm), the others are HandlerClientConn goroutines
Procs == 0..NClients

OFFLINE == "OFFLINE"
STARTING == "STARTING"
ONLINE == "ONLINE"
STOPPING == "STOPPING"
SUSPENDED == "SUSPENDED"
StatusSet == {OFFLINE, STARTING, ONLINE, STOPPING, SUSPENDED}

INFO == "INFO"
JOIN == "JOIN"
FOREIGN == "FOREIGN"
UNKNOWN == "UNKNOWN"
ReqKinds == {INFO, JOIN, FOREIGN, UNKNOWN}

VARIABLES
    Status,        \* servstats.Stats.Status
    Suspended,     \* servstats.Stats.Suspended
    ConnCount,     \* servstats.Stats.ConnCount
    MajorError,    \* servstats.Stats.MajorError != nil
    SuspendAllow,  \* config.ConfigRuntime.Msh.SuspendAllow
    procs,         \* number of backend processes alive
    mu,            \* holder of the lifecycle controller's mutex
    timer,         \* idle-freeze timer: -1 stopped, else ticks left
    sinceSched,    \* ticks elapsed since the last FreezeMSSchedule call
    firesSince,    \* firings of the timer since the last FreezeMSSchedule call
    armings,       \* FreezeMSSchedule calls that found the timer still pending, plus one
    pc,            \* position of main (0) and of each HandlerClientConn
    jb,            \* JOIN branch a handler called WarmMS from
    req,           \* reqType of the connection
    wl,            \* IsWhitelist(reqPacket, clientAddress) = nil
    reply,         \* message written to the client by the handler
    pinged,        \* the handler answered the client's PING
    closed,        \* the handler closed clientConn
    warmed,        \* the handler called WarmMS
    obs,           \* <<Status, Suspended>> as they were when the handler decided not to proxy an INFO
    dialed,        \* the handler called net.Dial (openProxy)
    s2c,           \* position of forwardTCP(server, client, true, req)
    c2s,           \* position of forwardTCP(client, server, false, req)
    tmp,           \* ConnCount as loaded by a relay's ++ / --
    sock,          \* the sockets of the proxy pair are open
    conns,         \* connections accepted so far
    dur,           \* sgm.stats.dur
    hibeDur,       \* sgm.stats.hibeDur
    M,             \* holder of servstats.Stats.M
    BytesToClients, \* servstats.Stats.BytesToClients
    BytesToServer, \* servstats.Stats.BytesToServer
    pdu,           \* position of printDataUsage
    version1,      \* compareVersions: first argument
    version2,      \* compareVersions: second argument
    cmpOut         \* compareVersions: <<isOutdated, isNewer, err # nil>> once returned

lifeVars == <<Status, Suspended, MajorError, procs, mu>>
timerVars == <<timer, sinceSched, firesSince, armings>>
handVars == <<pc, jb, req, wl, reply, pinged, closed, warmed, dialed, conns, obs>>
relayVars == <<s2c, c2s, tmp, sock>>
sgmVars == <<dur, hibeDur>>
byteVars == <<M, BytesToClients, BytesToServer, pdu>>
cmpVars == <<version1, version2, cmpOut>>
miscVars == <<sgmVars, byteVars, cmpVars>>
vars == <<Status, Suspended, ConnCount, MajorError, SuspendAllow, procs, mu,
          timer, sinceSched, firesSince, armings, pc, jb, req, wl, reply, pinged,
          closed, warmed, dialed, s2c, c2s, tmp, sock, conns, obs, dur, hibeDur,
          M, BytesToClients, BytesToServer, pdu, version1, version2, cmpOut>>

\* the handler has taken no decision on an INFO request
NoObs == <<"-", FALSE>>

\* servstats.Stats.M is held by nobody
Unlocked == <<"free", 0>>

InitProxy ==
    /\ Status = OFFLINE
    /\ Suspended = FALSE
    /\ ConnCount = 0
    /\ MajorError = FALSE
    /\ SuspendAllow \in BOOLEAN
    /\ procs = 0
    /\ mu = "free"
    /\ timer = -1
    /\ sinceSched = IdleTicks
    /\ firesSince = 0
    /\ armings = 0
    /\ pc = [p \in Procs |-> IF p = 0 THEN "main" ELSE "idle"]
    /\ jb = [p \in Procs |-> "-"]
    /\ req = [h \in Clients |-> UNKNOWN]
    /\ wl = [h \in Clients |-> TRUE]
    /\ reply = [p \in Procs |-> "none"]
    /\ pinged = [h \in Clients |-> FALSE]
    /\ closed = [h \in Clients |-> FALSE]
    /\ warmed = [h \in Clients |-> FALSE]
    /\ dialed = [h \in Clients |-> FALSE]
    /\ s2c = [h \in Clients |-> "none"]
    /\ c2s = [h \in Clients |-> "none"]
    /\ tmp = [h \in Clients |-> 0]
    /\ sock = [h \in Clients |-> FALSE]
    /\ conns = 0
    /\ obs = [h \in Clients |-> NoObs]
    /\ dur = 0
    /\ hibeDur = 0
    /\ M = Unlocked
    /\ BytesToClients = 0
    /\ BytesToServer = 0
    /\ pdu = "wait"

\* no version check has been started
Init ==
    /\ InitProxy
    /\ version1 = <<>>
    /\ version2 = <<>>
    /\ cmpOut = <<>>

\* ------------------------------------------------- lifecycle controller
\* (lib/servctrl: modelled from the contract of the LifecycleController)

Min(a, b) == IF a < b THEN a ELSE b

\* CheckMSWarm() = nil
CheckMSWarm == Status = ONLINE /\ ~Suspended

\* What the caller of WarmMS does when the call returns: main logs the error and
\* goes on to listen; a JOIN handler answers "please wait" (cold branch), goes
\* on to openProxy (suspended and online branches), or answers the warm error.
AfterWarmIn(p, ok, waitBranches) ==
    /\ jb' = [jb EXCEPT ![p] = "-"]
    /\ IF p = 0
       THEN /\ pc' = [pc EXCEPT ![p] = "listen"]
            /\ reply' = [reply EXCEPT ![p] = IF ok THEN "none" ELSE "warmerr"]
            /\ UNCHANGED closed
       ELSE IF ~ok
       THEN /\ pc' = [pc EXCEPT ![p] = "done"]
            /\ reply' = [reply EXCEPT ![p] = "warmerr"]
            /\ closed' = [closed EXCEPT ![p] = TRUE]
       ELSE IF jb[p] \in waitBranches
       THEN /\ pc' = [pc EXCEPT ![p] = "done"]
            /\ reply' = [reply EXCEPT ![p] = "wait"]
            /\ closed' = [closed EXCEPT ![p] = TRUE]
       ELSE /\ pc' = [pc EXCEPT ![p] = "dial"]
            /\ UNCHANGED <<reply, closed>>

\* a cold JOIN branch that opens the proxy once WarmMS has returned
AfterWarm_ColdProxies(p, ok) == AfterWarmIn(p, ok, {})

\* only the cold branch (line 152) answers "please wait" and returns
AfterWarm(p, ok) == AfterWarmIn(p, ok, {"C"})

StayInWarm(p, to) ==
    /\ pc' = [pc EXCEPT ![p] = to]
    /\ UNCHANGED <<jb, reply, closed>>

\* ProcessSupervisor.Launch: spawns the backend and publishes STARTING, or fails
\* with a spawn error that is latched
Launch(p) ==
    \/ /\ Status' = STARTING
       /\ procs' = procs + 1
       /\ StayInWarm(p, "warmBlocked")
       /\ UNCHANGED <<Suspended, MajorError, mu>>
    \/ /\ MajorError' = TRUE
       /\ AfterWarm(p, FALSE)
       /\ UNCHANGED <<Status, Suspended, procs, mu>>

\* a Warm that leaves a pending freeze timer running
DrainTimer_Keeps == timer' = timer

\* the freeze timer is drained on Warm's mutex entry
DrainTimer == timer' = -1

\* Warm(): under the controller's mutex; stops the freeze timer on entry, then
\* acts on the state it finds: resume from SUSPENDED, nothing when ONLINE, Launch
\* in the states of coldStates, and wait otherwise (STARTING: for the start in
\* progress; STOPPING: for OFFLINE).  A caller that waited for a start that
\* failed returns the error.
WarmCase(p, coldStates) ==
    /\ pc[p] \in {"warmCall", "warmBlocked"}
    /\ mu = "free"
    /\ DrainTimer
    /\ UNCHANGED <<sinceSched, firesSince, armings>>
    /\ IF pc[p] = "warmBlocked" /\ MajorError
       THEN /\ AfterWarm(p, FALSE)
            /\ UNCHANGED lifeVars
       ELSE IF Status = SUSPENDED \/ Suspended
       THEN /\ Suspended' = FALSE
            /\ mu' = "warm"
            /\ StayInWarm(p, "warmResume")
            /\ UNCHANGED <<Status, MajorError, procs>>
       ELSE IF Status = ONLINE
       THEN /\ MajorError' = FALSE
            /\ AfterWarm(p, TRUE)
            /\ UNCHANGED <<Status, Suspended, procs, mu>>
       ELSE IF Status \in coldStates
       THEN Launch(p)
       ELSE /\ StayInWarm(p, "warmBlocked")
            /\ UNCHANGED lifeVars
    /\ UNCHANGED <<ConnCount, SuspendAllow, req, wl, pinged, warmed, dialed, conns, obs>>
    /\ UNCHANGED relayVars
    /\ UNCHANGED miscVars

\* a caller that does not look for a start in progress
WarmMS_Unserialized(p) == WarmCase(p, {OFFLINE, STARTING})

WarmMS(p) == WarmCase(p, {OFFLINE})

\* Warm() from SUSPENDED, second half: after ResumeTree the status is published
WarmResume(p) ==
    /\ pc[p] = "warmResume"
    /\ Status' = ONLINE
    /\ MajorError' = FALSE
    /\ mu' = "free"
    /\ AfterWarm(p, TRUE)
    /\ UNCHANGED <<Suspended, procs, ConnCount, SuspendAllow, req, wl, pinged, warmed,
                   dialed, conns, obs>>
    /\ UNCHANGED timerVars
    /\ UNCHANGED relayVars
    /\ UNCHANGED miscVars

\* Freeze() on an ONLINE backend: SuspendTree and the Suspended mark, the status
\* being published next; or the stop command and STOPPING
FreezeBody(by) ==
    IF SuspendAllow
    THEN /\ Suspended' = TRUE
         /\ mu' = by
         /\ UNCHANGED <<Status, MajorError, procs>>
    ELSE /\ Status' = STOPPING
         /\ UNCHANGED <<Suspended, MajorError, procs, mu>>

\* Freeze() called directly (not by the timer): acts in the states of fromStates
FreezeFrom(fromStates) ==
    /\ mu = "free"
    /\ Status \in fromStates
    /\ FreezeBody("freeze")
    /\ UNCHANGED <<ConnCount, SuspendAllow>>
    /\ UNCHANGED timerVars
    /\ UNCHANGED handVars
    /\ UNCHANGED relayVars
    /\ UNCHANGED miscVars

\* a Freeze that also acts on a backend that is still starting
FreezeMS_WhileStarting == FreezeFrom({ONLINE, STARTING})

FreezeMS == FreezeFrom({ONLINE})

\* Freeze(suspend), second half: SUSPENDED is published
FinishSuspend ==
    /\ mu \in {"freeze", "idleFreeze"}
    /\ Status' = SUSPENDED
    /\ mu' = "free"
    /\ UNCHANGED <<Suspended, MajorError, procs, ConnCount, SuspendAllow>>
    /\ UNCHANGED timerVars
    /\ UNCHANGED handVars
    /\ UNCHANGED relayVars
    /\ UNCHANGED miscVars

\* a FreezeSchedule that leaves a pending timer running
FreezeMSSchedule_NoReset ==
    /\ timer' = IF timer >= 0 THEN timer ELSE IdleTicks
    /\ sinceSched' = 0
    /\ firesSince' = 0
    /\ armings' = IF timer >= 0 THEN Min(armings + 1, NClients) ELSE 1

\* FreezeSchedule(): arms the single-shot timer for the idle duration; every
\* call resets it
FreezeMSSchedule ==
    /\ timer' = IdleTicks
    /\ sinceSched' = 0
    /\ firesSince' = 0
    /\ armings' = IF timer >= 0 THEN Min(armings + 1, NClients) ELSE 1

\* one tick of the idle duration elapses on the armed timer
Tick ==
    /\ timer > 0
    /\ timer' = timer - 1
    /\ sinceSched' = Min(sinceSched + 1, IdleTicks)
    /\ UNCHANGED <<firesSince, armings>>
    /\ UNCHANGED <<ConnCount, SuspendAllow>>
    /\ UNCHANGED lifeVars
    /\ UNCHANGED handVars
    /\ UNCHANGED relayVars
    /\ UNCHANGED miscVars

\* the timer fires: Freeze() when idle holds, else nothing
TimerFireIf(idle) ==
    /\ timer = 0
    /\ mu = "free"
    /\ timer' = -1
    /\ firesSince' = firesSince + 1
    /\ UNCHANGED <<sinceSched, armings>>
    /\ IF idle
       THEN FreezeBody("idleFreeze")
       ELSE UNCHANGED lifeVars
    /\ UNCHANGED <<ConnCount, SuspendAllow>>
    /\ UNCHANGED handVars
    /\ UNCHANGED relayVars
    /\ UNCHANGED miscVars

\* a timer that does not look at ConnCount
TimerFire_NoConnCount == TimerFireIf(Status = ONLINE)

\* check state on fire: ConnCount = 0 and Status = ONLINE
TimerFire == TimerFireIf(ConnCount = 0 /\ Status = ONLINE)

\* AwaitReady: the readiness line is seen on the backend's stdout
BackendReady ==
    /\ Status = STARTING
    /\ Status' = ONLINE
    /\ UNCHANGED <<Suspended, MajorError, procs, mu, ConnCount, SuspendAllow>>
    /\ UNCHANGED timerVars
    /\ UNCHANGED handVars
    /\ UNCHANGED relayVars
    /\ UNCHANGED miscVars

\* AwaitReady: the configured timeout elapses first; a major error is latched
AwaitTimeout ==
    /\ Status = STARTING
    /\ ~MajorError
    /\ \E p \in Procs : pc[p] = "warmBlocked"
    /\ MajorError' = TRUE
    /\ UNCHANGED <<Status, Suspended, procs, mu, ConnCount, SuspendAllow>>
    /\ UNCHANGED timerVars
    /\ UNCHANGED handVars
    /\ UNCHANGED relayVars
    /\ UNCHANGED miscVars

\* Freeze(stop), second half: the backend exits and OFFLINE is published
BackendExit ==
    /\ Status = STOPPING
    /\ Status' = OFFLINE
    /\ procs' = 0
    /\ UNCHANGED <<Suspended, MajorError, mu, ConnCount, SuspendAllow>>
    /\ UNCHANGED timerVars
    /\ UNCHANGED handVars
    /\ UNCHANGED relayVars
    /\ UNCHANGED miscVars

\* the backend dies unexpectedly: OFFLINE with a major error; the Suspended
\* mark becomes flag
CrashWith(flag) ==
    /\ Status \in {STARTING, ONLINE, SUSPENDED}
    /\ mu = "free"
    /\ Status' = OFFLINE
    /\ Suspended' = flag
    /\ procs' = 0
    /\ MajorError' = TRUE
    /\ UNCHANGED <<mu, ConnCount, SuspendAllow>>
    /\ UNCHANGED timerVars
    /\ UNCHANGED handVars
    /\ UNCHANGED relayVars
    /\ UNCHANGED miscVars

\* a crash that leaves the Suspended mark as it was
BackendCrash_KeepsMark == CrashWith(Suspended)

BackendCrash == CrashWith(FALSE)

\* ------------------------------------------------------------------ main

\* main: if SuspendAllow, pre-warm the server before the listener is opened
MainPrewarm ==
    /\ pc[0] = "main"
    /\ IF SuspendAllow
       THEN /\ pc' = [pc EXCEPT ![0] = "warmCall"]
            /\ jb' = [jb EXCEPT ![0] = "M"]
       ELSE /\ pc' = [pc EXCEPT ![0] = "listen"]
            /\ UNCHANGED jb
    /\ UNCHANGED <<req, wl, reply, pinged, closed, warmed, dialed, conns, obs>>
    /\ UNCHANGED <<ConnCount, SuspendAllow>>
    /\ UNCHANGED lifeVars
    /\ UNCHANGED timerVars
    /\ UNCHANGED relayVars
    /\ UNCHANGED miscVars

\* ---------------------------------------------------- HandlerClientConn

\* the handler's steps leave the lifecycle, the timer, the relays and the
\* segment alone unless they say otherwise
HandlerFrame ==
    /\ UNCHANGED <<ConnCount, SuspendAllow>>
    /\ UNCHANGED lifeVars
    /\ UNCHANGED timerVars
    /\ UNCHANGED miscVars

\* the handler returns: pc, reply, ping answer and close of clientConn
Finish(h, mes, ping, cls) ==
    /\ pc' = [pc EXCEPT ![h] = "done"]
    /\ reply' = [reply EXCEPT ![h] = mes]
    /\ pinged' = [pinged EXCEPT ![h] = ping]
    /\ closed' = [closed EXCEPT ![h] = cls]

Goto(h, to) ==
    /\ pc' = [pc EXCEPT ![h] = to]
    /\ UNCHANGED <<reply, pinged, closed>>

\* the slot of h holds no running handler and no running relay
SlotFree(h) ==
    /\ pc[h] \in {"idle", "done"}
    /\ s2c[h] \in {"none", "done"}
    /\ c2s[h] \in {"none", "done"}

\* main accepts a connection and starts HandlerClientConn, which classifies the
\* request (getReqType); on a classification error it logs and returns
Accept(h) ==
    /\ pc[0] = "listen"
    /\ SlotFree(h)
    /\ conns < MaxConns
    /\ conns' = conns + 1
    /\ \E k \in ReqKinds \cup {"ERR"}, w \in BOOLEAN :
        /\ ~w => k = JOIN
        /\ req' = [req EXCEPT ![h] = IF k = "ERR" THEN UNKNOWN ELSE k]
        /\ wl' = [wl EXCEPT ![h] = w]
        /\ pc' = [pc EXCEPT ![h] = IF k = "ERR" THEN "done" ELSE "chkMajor"]
    /\ reply' = [reply EXCEPT ![h] = "none"]
    /\ pinged' = [pinged EXCEPT ![h] = FALSE]
    /\ closed' = [closed EXCEPT ![h] = FALSE]
    /\ warmed' = [warmed EXCEPT ![h] = FALSE]
    /\ dialed' = [dialed EXCEPT ![h] = FALSE]
    /\ s2c' = [s2c EXCEPT ![h] = "none"]
    /\ c2s' = [c2s EXCEPT ![h] = "none"]
    /\ tmp' = [tmp EXCEPT ![h] = 0]
    /\ sock' = [sock EXCEPT ![h] = FALSE]
    /\ obs' = [obs EXCEPT ![h] = NoObs]
    /\ UNCHANGED jb
    /\ HandlerFrame

\* the handler calls WarmMS from JOIN branch b
CallWarm(h, b) ==
    /\ pc' = [pc EXCEPT ![h] = "warmCall"]
    /\ jb' = [jb EXCEPT ![h] = b]
    /\ warmed' = [warmed EXCEPT ![h] = TRUE]
    /\ UNCHANGED <<reply, pinged, closed>>

\* if servstats.Stats.MajorError != nil: canned error, PING for INFO, close.
\* Else the switch on reqType, up to its first read of Status; the whitelist
\* check of a JOIN (IsWhitelist) reads no shared state and is decided here.
CheckMajorWl(h, whitelisted) ==
    /\ pc[h] = "chkMajor"
    /\ IF MajorError
       THEN \E ping \in BOOLEAN :
                /\ ping => req[h] = INFO
                /\ Finish(h, "major", ping, TRUE)
       ELSE IF req[h] = INFO THEN Goto(h, "info66")
       ELSE IF req[h] = JOIN
       THEN IF whitelisted
            THEN Goto(h, "join131")
            ELSE Finish(h, "denied", FALSE, TRUE)
       ELSE IF req[h] = FOREIGN THEN Goto(h, "foreign205")
       ELSE Finish(h, "unknown", FALSE, FALSE)
    /\ UNCHANGED <<jb, req, wl, warmed, dialed, conns, obs>>
    /\ UNCHANGED relayVars
    /\ HandlerFrame

\* a handler that skips the whitelist check
CheckMajor_NoWhitelist(h) == CheckMajorWl(h, TRUE)

CheckMajor(h) == CheckMajorWl(h, wl[h])

\* canned INFO reply, then getPing (the client may or may not send its PING),
\* then the deferred close
Canned(h, mes) ==
    \E ping \in BOOLEAN : Finish(h, mes, ping, TRUE)

\* case CLIENT_REQ_INFO: each read of Status or Suspended is one step; cold is
\* where the handler goes when the server is not online or is suspended
HandleInfoTo(h, cold) ==
    /\ \/ /\ pc[h] = "info66"
          /\ IF Status # ONLINE THEN Goto(h, cold) ELSE Goto(h, "info66b")
       \/ /\ pc[h] = "info66b"
          /\ IF Suspended THEN Goto(h, cold) ELSE Goto(h, "dial")
       \/ /\ pc[h] = "info78"
          /\ IF Status = SUSPENDED THEN Canned(h, "suspended") ELSE Goto(h, "info78b")
       \/ /\ pc[h] = "info78b"
          /\ IF Suspended THEN Canned(h, "suspended") ELSE Goto(h, "info80")
       \/ /\ pc[h] = "info80"
          /\ IF Status = OFFLINE THEN Canned(h, "hibernation") ELSE Goto(h, "info82")
       \/ /\ pc[h] = "info82"
          /\ IF Status = STARTING THEN Canned(h, "starting") ELSE Goto(h, "info84")
       \/ /\ pc[h] = "info84"
          /\ IF Status = STOPPING THEN Canned(h, "stopping") ELSE Canned(h, "hibernation")
    /\ obs' = [obs EXCEPT ![h] =
                  IF (pc[h] = "info66" /\ Status # ONLINE) \/ (pc[h] = "info66b" /\ Suspended)
                  THEN <<Status, Suspended>>
                  ELSE IF pc'[h] = "done" THEN NoObs ELSE obs[h]]
    /\ UNCHANGED <<jb, req, wl, warmed, dialed, conns>>
    /\ UNCHANGED relayVars
    /\ HandlerFrame

\* a handler that proxies the INFO request whatever the status
HandleInfo_AlwaysProxy(h) == HandleInfoTo(h, "dial")

HandleInfo(h) == HandleInfoTo(h, "info78")

\* case CLIENT_REQ_JOIN after the whitelist check: the switch on the status
HandleJoin(h) ==
    /\ \/ /\ pc[h] = "join131"
          /\ IF Status = SUSPENDED
             THEN CallWarm(h, "S")
             ELSE Goto(h, "join131b") /\ UNCHANGED <<jb, warmed>>
       \/ /\ pc[h] = "join131b"
          /\ IF Suspended
             THEN CallWarm(h, "S")
             ELSE Goto(h, "join152") /\ UNCHANGED <<jb, warmed>>
       \/ /\ pc[h] = "join152"
          /\ IF Status # ONLINE THEN CallWarm(h, "C") ELSE CallWarm(h, "O")
    /\ UNCHANGED <<req, wl, dialed, conns, obs>>
    /\ UNCHANGED relayVars
    /\ HandlerFrame

\* case CLIENT_REQ_FOREIGN: proxy only to an online server, else close
HandleForeignIf(h, online) ==
    /\ pc[h] = "foreign205"
    /\ IF online
       THEN Goto(h, "dial")
       ELSE Finish(h, "none", FALSE, TRUE)
    /\ UNCHANGED <<jb, req, wl, warmed, dialed, conns, obs>>
    /\ UNCHANGED relayVars
    /\ HandlerFrame

\* a handler that proxies a foreign request whatever the status
HandleForeign_AnyStatus(h) == HandleForeignIf(h, TRUE)

\* if servstats.Stats.Status == errco.SERVER_STATUS_ONLINE (line 205)
HandleForeign(h) == HandleForeignIf(h, Status = ONLINE)

\* openProxy: dial the backend.  On failure the JOIN-shaped "can't connect"
\* reply is written and openProxy returns; on success the request packet is
\* sent and the two forwardTCP goroutines are launched.
openProxyTo(h, failMark) ==
    /\ pc[h] = "dial"
    /\ dialed' = [dialed EXCEPT ![h] = TRUE]
    /\ \/ /\ Finish(h, "cantconnect", FALSE, FALSE)
          /\ MajorError' = failMark
          /\ UNCHANGED relayVars
       \/ /\ procs > 0
          /\ Goto(h, "done")
          /\ sock' = [sock EXCEPT ![h] = TRUE]
          /\ c2s' = [c2s EXCEPT ![h] = "run"]
          /\ s2c' = [s2c EXCEPT ![h] = "entry"]
          /\ UNCHANGED <<tmp, MajorError>>
    /\ UNCHANGED <<jb, req, wl, warmed, conns, obs>>
    /\ UNCHANGED <<ConnCount, SuspendAllow, Status, Suspended, procs, mu>>
    /\ UNCHANGED timerVars
    /\ UNCHANGED miscVars

\* an openProxy that latches the dial failure as a major error
openProxy_LatchesDialFailure(h) == openProxyTo(h, TRUE)

\* the dial failure is logged and answered (lines 229-237); MajorError is left
\* as it is
openProxy(h) == openProxyTo(h, MajorError)

\* ------------------------------------------------------------ forwardTCP

RelayFrame ==
    /\ UNCHANGED SuspendAllow
    /\ UNCHANGED lifeVars
    /\ UNCHANGED handVars
    /\ UNCHANGED miscVars

\* forwardTCP(server, client, true, req), entry: for a JOIN, ConnCount++ is a
\* load of ConnCount followed by a store (no lock is held)
S2CEntryBy(h, n) ==
    /\ \/ /\ s2c[h] = "entry"
          /\ IF req[h] = JOIN
             THEN /\ tmp' = [tmp EXCEPT ![h] = ConnCount]
                  /\ s2c' = [s2c EXCEPT ![h] = "incW"]
             ELSE /\ s2c' = [s2c EXCEPT ![h] = "run"]
                  /\ UNCHANGED tmp
          /\ UNCHANGED ConnCount
       \/ /\ s2c[h] = "incW"
          /\ ConnCount' = tmp[h] + n
          /\ s2c' = [s2c EXCEPT ![h] = "run"]
          /\ tmp' = [tmp EXCEPT ![h] = 0]
    /\ UNCHANGED <<c2s, sock>>
    /\ UNCHANGED timerVars
    /\ RelayFrame

\* a relay that counts its connection twice
S2CEntry_CountsTwice(h) == S2CEntryBy(h, 2)

\* servstats.Stats.ConnCount++ (line 269)
S2CEntry(h) == S2CEntryBy(h, 1)

\* forwardTCP(server, client, true, req), the loop: a read or write error (the
\* peer went away, the deadline passed, or the other relay closed the sockets)
\* closes both sockets and returns; for a JOIN the deferred function runs next
S2CFailFor(h, counted) ==
    /\ s2c[h] = "run"
    /\ sock' = [sock EXCEPT ![h] = FALSE]
    /\ s2c' = [s2c EXCEPT ![h] = IF counted THEN "decR" ELSE "done"]
    /\ UNCHANGED <<c2s, tmp, ConnCount>>
    /\ UNCHANGED timerVars
    /\ RelayFrame

\* a relay that runs the deferred function whatever the request type
S2CFail_AnyRequest(h) == S2CFailFor(h, TRUE)

\* the deferred function is registered only if isServerToClient && req ==
\* errco.CLIENT_REQ_JOIN (line 268)
S2CFail(h) == S2CFailFor(h, req[h] = JOIN)

\* the deferred function of the JOIN server->client relay: ConnCount-- (a load
\* and a store), then servctrl.FreezeMSSchedule()
S2CExitWith(h, schedule) ==
    /\ \/ /\ s2c[h] = "decR"
          /\ tmp' = [tmp EXCEPT ![h] = ConnCount]
          /\ s2c' = [s2c EXCEPT ![h] = "decW"]
          /\ UNCHANGED ConnCount
          /\ UNCHANGED timerVars
       \/ /\ s2c[h] = "decW"
          /\ ConnCount' = tmp[h] - 1
          /\ tmp' = [tmp EXCEPT ![h] = 0]
          /\ s2c' = [s2c EXCEPT ![h] = "sched"]
          /\ UNCHANGED timerVars
       \/ /\ s2c[h] = "sched"
          /\ mu = "free"
          /\ schedule
          /\ s2c' = [s2c EXCEPT ![h] = "done"]
          /\ UNCHANGED <<tmp, ConnCount>>
    /\ UNCHANGED <<c2s, sock>>
    /\ RelayFrame

\* a deferred function that does not schedule the freeze
S2CExit_NoSchedule(h) == S2CExitWith(h, UNCHANGED timerVars)

\* servctrl.FreezeMSSchedule() (line 276)
S2CExit(h) == S2CExitWith(h, FreezeMSSchedule)

\* forwardTCP(client, server, false, req): error, close both sockets, return
C2SFailTo(h, open) ==
    /\ c2s[h] = "run"
    /\ sock' = [sock EXCEPT ![h] = open]
    /\ c2s' = [c2s EXCEPT ![h] = "done"]
    /\ UNCHANGED <<s2c, tmp, ConnCount>>
    /\ UNCHANGED timerVars
    /\ RelayFrame

\* a relay that returns on an error without closing the sockets
C2SFail_NoClose(h) == C2SFailTo(h, sock[h])

\* destination.Close(); source.Close() (lines 291-292, 302-303)
C2SFail(h) == C2SFailTo(h, FALSE)

\* --------------------------------------- byte counters, printDataUsage

ByteFrame ==
    /\ UNCHANGED <<ConnCount, SuspendAllow>>
    /\ UNCHANGED lifeVars
    /\ UNCHANGED timerVars
    /\ UNCHANGED handVars
    /\ UNCHANGED sgmVars
    /\ UNCHANGED cmpVars

\* forwardTCP, the loop after a chunk was relayed (ShowInternetUsage set):
\* servstats.Stats.M.Lock(); then the counter of the direction is increased
\* and M is unlocked
CountBytes(h) ==
    /\ \/ /\ s2c[h] = "run"
          /\ sock[h]
          /\ BytesToClients < MaxBytes
          /\ M = Unlocked
          /\ M' = <<"s2c", h>>
          /\ s2c' = [s2c EXCEPT ![h] = "cnt"]
          /\ UNCHANGED <<c2s, BytesToClients, BytesToServer>>
       \/ /\ s2c[h] = "cnt"
          /\ BytesToClients' = BytesToClients + 1
          /\ M' = Unlocked
          /\ s2c' = [s2c EXCEPT ![h] = "run"]
          /\ UNCHANGED <<c2s, BytesToServer>>
       \/ /\ c2s[h] = "run"
          /\ sock[h]
          /\ BytesToServer < MaxBytes
          /\ M = Unlocked
          /\ M' = <<"c2s", h>>
          /\ c2s' = [c2s EXCEPT ![h] = "cnt"]
          /\ UNCHANGED <<s2c, BytesToClients, BytesToServer>>
       \/ /\ c2s[h] = "cnt"
          /\ BytesToServer' = BytesToServer + 1
          /\ M' = Unlocked
          /\ c2s' = [c2s EXCEPT ![h] = "run"]
          /\ UNCHANGED <<s2c, BytesToClients>>
    /\ UNCHANGED <<tmp, sock, pdu>>
    /\ ByteFrame

\* printDataUsage, one round of the ticker: the two counters are read without
\* the lock; if one is not 0 they are printed, and reset to 0 under M
printDataUsage ==
    /\ \/ /\ pdu = "wait"
          /\ pdu' = IF BytesToClients # 0 THEN "lock" ELSE "rd2"
          /\ UNCHANGED <<M, BytesToClients, BytesToServer>>
       \/ /\ pdu = "rd2"
          /\ pdu' = IF BytesToServer # 0 THEN "lock" ELSE "wait"
          /\ UNCHANGED <<M, BytesToClients, BytesToServer>>
       \/ /\ pdu = "lock"
          /\ M = Unlocked
          /\ M' = <<"print", 0>>
          /\ pdu' = "reset"
          /\ UNCHANGED <<BytesToClients, BytesToServer>>
       \/ /\ pdu = "reset"
          /\ BytesToClients' = 0
          /\ BytesToServer' = 0
          /\ M' = Unlocked
          /\ pdu' = "wait"
    /\ UNCHANGED relayVars
    /\ ByteFrame

\* ---------------------------------------------------------------- sgmMgr

SgmFrame ==
    /\ UNCHANGED <<ConnCount, SuspendAllow>>
    /\ UNCHANGED byteVars
    /\ UNCHANGED cmpVars
    /\ UNCHANGED lifeVars
    /\ UNCHANGED timerVars
    /\ UNCHANGED handVars
    /\ UNCHANGED relayVars

\* a ticker that counts the warm seconds instead
SgmTick_CountsWarm ==
    /\ dur < MaxDur
    /\ dur' = dur + 1
    /\ hibeDur' = IF CheckMSWarm THEN hibeDur + 1 ELSE hibeDur
    /\ SgmFrame

\* case <-sgm.tk.C: one more second, hibernated if the server is not warm
SgmTick ==
    /\ dur < MaxDur
    /\ dur' = dur + 1
    /\ hibeDur' = IF ~CheckMSWarm THEN hibeDur + 1 ELSE hibeDur
    /\ SgmFrame

\* sgm.reset: the counters of the segment start again
SgmReset ==
    /\ dur > 0
    /\ dur' = 0
    /\ hibeDur' = 0
    /\ SgmFrame

\* ------------------------------------------------------- compareVersions

\* the characters of a version string: two digits, the separator, a letter
Alphabet == {"0", "1", ".", "a"}

VersionStrings == UNION {[1..k -> Alphabet] : k \in 0..MaxVerLen}

\* for i := 0; i < 3; i++
NParts == 3

\* strings.Split(s, "."): the substrings between the separators; a string
\* without separator (the empty one too) gives one component
RECURSIVE Split(_)
Split(s) ==
    IF \E i \in 1..Len(s) : s[i] = "."
    THEN LET i == CHOOSE i \in 1..Len(s) :
                      s[i] = "." /\ \A j \in 1..(i - 1) : s[j] # "."
         IN  <<SubSeq(s, 1, i - 1)>> \o Split(SubSeq(s, i + 1, Len(s)))
    ELSE <<s>>

DigitVal(c) == IF c = "0" THEN 0 ELSE 1

RECURSIVE DecVal(_)
DecVal(c) ==
    IF c = <<>>
    THEN 0
    ELSE 10 * DecVal(SubSeq(c, 1, Len(c) - 1)) + DigitVal(c[Len(c)])

\* strconv.Atoi(c) as <<err = nil, value>>: one digit at least and digits only
Atoi(c) ==
    IF c # <<>> /\ \A i \in 1..Len(c) : c[i] \in {"0", "1"}
    THEN <<TRUE, DecVal(c)>>
    ELSE <<FALSE, 0>>

\* the loop over the components, from component i (1-based) to component n;
\* the result is <<isOutdated, isNewer, err # nil>>
RECURSIVE CompareFrom(_, _, _, _)
CompareFrom(v1Parts, v2Parts, i, n) ==
    IF i > n
    THEN <<FALSE, FALSE, FALSE>>
    ELSE LET v1Comp == IF i <= Len(v1Parts) THEN Atoi(v1Parts[i]) ELSE <<TRUE, 0>>
             v2Comp == IF i <= Len(v2Parts) THEN Atoi(v2Parts[i]) ELSE <<TRUE, 0>>
         IN  IF ~v1Comp[1] THEN <<FALSE, FALSE, TRUE>>
             ELSE IF ~v2Comp[1] THEN <<FALSE, FALSE, TRUE>>
             ELSE IF v1Comp[2] < v2Comp[2] THEN <<TRUE, FALSE, FALSE>>
             ELSE IF v1Comp[2] > v2Comp[2] THEN <<FALSE, TRUE, FALSE>>
             ELSE CompareFrom(v1Parts, v2Parts, i + 1, n)

compareVersionsUpTo(v1, v2, n) ==
    LET v1Parts == Split(v1)
        v2Parts == Split(v2)
    IN  IF Len(v1Parts) = 0 \/ Len(v2Parts) = 0
        THEN <<FALSE, FALSE, TRUE>>
        ELSE CompareFrom(v1Parts, v2Parts, 1, n)

\* a comparison of major and minor only
compareVersions_TwoParts(v1, v2) == compareVersionsUpTo(v1, v2, 2)

compareVersions(v1, v2) == compareVersionsUpTo(v1, v2, NParts)

\* the version check calls compareVersions on the two version strings
CheckVersion ==
    /\ cmpOut = <<>>
    /\ cmpOut' = compareVersions(version1, version2)
    /\ UNCHANGED <<version1, version2>>
    /\ UNCHANGED <<ConnCount, SuspendAllow>>
    /\ UNCHANGED lifeVars
    /\ UNCHANGED timerVars
    /\ UNCHANGED handVars
    /\ UNCHANGED relayVars
    /\ UNCHANGED sgmVars
    /\ UNCHANGED byteVars

\* ----------------------------------------------------------- specification

Lifecycle ==
    \/ \E p \in Procs : WarmMS(p)
    \/ \E p \in Procs : WarmResume(p)
    \/ FreezeMS
    \/ FinishSuspend
    \/ Tick
    \/ TimerFire
    \/ BackendReady
    \/ AwaitTimeout
    \/ BackendExit
    \/ BackendCrash

HandlerClientConn(h) ==
    \/ Accept(h)
    \/ CheckMajor(h)
    \/ HandleInfo(h)
    \/ HandleJoin(h)
    \/ HandleForeign(h)
    \/ openProxy(h)

forwardTCP(h) ==
    \/ S2CEntry(h)
    \/ S2CFail(h)
    \/ S2CExit(h)
    \/ C2SFail(h)

Next ==
    \/ MainPrewarm
    \/ Lifecycle
    \/ \E h \in Clients : HandlerClientConn(h)
    \/ \E h \in Clients : forwardTCP(h)

Spec == Init /\ [][Next]_vars

\* Scheduling: an armed timer runs down and fires; a suspend, a resume and a
\* stop in progress complete; a relay goroutine that can run does run, and a
\* relay whose sockets were closed gets an error from its blocked Read.
Fairness ==
    /\ WF_vars(Tick)
    /\ WF_vars(TimerFire)
    /\ WF_vars(FinishSuspend)
    /\ WF_vars(BackendExit)
    /\ \A p \in Procs : WF_vars(WarmResume(p))
    /\ \A h \in Clients :
          /\ WF_vars(S2CEntry(h))
          /\ WF_vars(S2CExit(h))
          /\ WF_vars(~sock[h] /\ S2CFail(h))
          /\ WF_vars(~sock[h] /\ C2SFail(h))

SpecLive == Spec /\ Fairness

\* the program with the segment manager's ticker, serving one client at a time
sgmMgr ==
    \/ SgmTick
    \/ SgmReset

NextSgm ==
    \/ MainPrewarm
    \/ Lifecycle
    \/ HandlerClientConn(1)
    \/ forwardTCP(1)
    \/ sgmMgr

SpecSgm == Init /\ [][NextSgm]_vars

\* the program with the data-usage accounting (ShowInternetUsage set)
NextBytes ==
    \/ Next
    \/ \E h \in Clients : CountBytes(h)
    \/ printDataUsage

SpecBytes == Init /\ [][NextBytes]_vars

\* compareVersions on every pair of version strings
InitCmp ==
    /\ InitProxy
    /\ ~SuspendAllow
    /\ version1 \in VersionStrings
    /\ version2 \in VersionStrings
    /\ cmpOut = <<>>

NextCmp == CheckVersion

SpecCmp == InitCmp /\ [][NextCmp]_vars

TypeOK ==
    /\ Status \in StatusSet
    /\ Suspended \in BOOLEAN
    /\ ConnCount \in -MaxConns..MaxConns
    /\ MajorError \in BOOLEAN
    /\ mu \in {"free", "warm", "freeze", "idleFreeze"}
    /\ timer \in -1..IdleTicks
    /\ sinceSched \in 0..IdleTicks
    /\ armings \in 0..NClients
    /\ procs \in 0..1
    /\ conns \in 0..MaxConns
    /\ obs \in [Clients -> {NoObs} \cup (StatusSet \X BOOLEAN)]
    /\ dur \in 0..MaxDur
    /\ hibeDur \in 0..dur
    /\ M \in {Unlocked, <<"print", 0>>} \cup ({"s2c", "c2s"} \X Clients)
    /\ BytesToClients \in 0..MaxBytes
    /\ BytesToServer \in 0..MaxBytes
    /\ pdu \in {"wait", "rd2", "lock", "reset"}
    /\ version1 \in VersionStrings
    /\ version2 \in VersionStrings
    /\ cmpOut \in {<<>>} \cup (BOOLEAN \X BOOLEAN \X BOOLEAN)

\* --------------------------------------------------------------- claims

\* handler h calls WarmMS in this step
CallsWarm(h) == pc[h] # "warmCall" /\ pc'[h] = "warmCall"

\* handler h dials the backend (openProxy) in this step
Dials(h) == ~dialed[h] /\ dialed'[h]

\* ProcessSupervisor.Launch spawns a backend in this step
Launches == procs' > procs

\* C1: while MajorError is latched no client request causes a call to WarmMS, a
\* Launch of the backend or a dial to the backend.
C1_NoBackendTouchWhileLatched ==
    [][MajorError =>
          /\ \A h \in Clients : ~CallsWarm(h) /\ ~Dials(h)
          /\ ~Launches]_vars

\* C2: ConnCount >= 0 in every reachable state.
C2_ConnCountNonNegative == ConnCount >= 0

\* C3: at most one cold start.  Concurrent WarmMS calls never have two backends
\* launched: a Launch happens only from OFFLINE with no backend alive and
\* publishes STARTING; a call that finds OFFLINE launches (or latches the spawn
\* error); and a call returns without error only when Status = ONLINE and the
\* backend is not suspended.
WarmPcs == {"warmCall", "warmBlocked", "warmResume"}

ReturnsWarmOk(p) ==
    pc[p] \in WarmPcs /\ pc'[p] \notin WarmPcs /\ reply'[p] # "warmerr"

C3_AtMostOneColdStart ==
    /\ [](procs <= 1)
    /\ [][/\ Launches => Status = OFFLINE /\ Status' = STARTING /\ procs = 0
          /\ \A p \in Procs :
                /\ (pc[p] = "warmCall" /\ pc'[p] # "warmCall" /\ Status = OFFLINE)
                      => Launches \/ (MajorError' /\ pc'[p] \notin WarmPcs)
                /\ ReturnsWarmOk(p) => Status' = ONLINE /\ ~Suspended']_vars

\* two concurrent WarmMS calls wait for the one backend that was launched
C3_Witness ==
    \E p, q \in Procs :
        /\ p # q
        /\ pc[p] = "warmBlocked"
        /\ pc[q] = "warmBlocked"
        /\ Status = STARTING
        /\ procs = 1

\* the idle-freeze timer fires in this step
Fires == firesSince' > firesSince

\* C4: the idle-freeze timer invokes Freeze only if ConnCount = 0 and
\* Status = ONLINE when it fires, and changes nothing otherwise; so the timer
\* never suspends or stops the backend while ConnCount > 0.
C4_IdleTimerFreeze ==
    [][/\ Fires =>
             IF ConnCount = 0 /\ Status = ONLINE
             THEN (mu' = "idleFreeze" /\ Suspended') \/ Status' = STOPPING
             ELSE UNCHANGED <<Status, Suspended, MajorError, procs, mu>>
       /\ Fires => UNCHANGED ConnCount
       /\ (mu # "idleFreeze" /\ mu' = "idleFreeze") => Fires /\ ConnCount = 0]_vars

\* the timer has fired on an idle ONLINE backend and is suspending it
C4_Witness == mu = "idleFreeze" /\ Suspended /\ Status = ONLINE /\ ConnCount = 0

\* C5: freeze debounce.  Whatever the number of FreezeMSSchedule calls, the
\* timer fires at most once after the last of them, and not before the idle
\* duration has elapsed since that call.
C5_FreezeDebounce ==
    /\ [](firesSince <= 1)
    /\ [][Fires => sinceSched = IdleTicks]_vars

\* two FreezeMSSchedule calls in one idle window, one firing
C5_Witness == armings >= 2 /\ firesSince = 1 /\ timer = -1

\* C6: Status starts as OFFLINE and changes only along the legal transitions.
LegalTransitions ==
    {<<OFFLINE, STARTING>>, <<STARTING, ONLINE>>, <<ONLINE, STOPPING>>,
     <<STOPPING, OFFLINE>>, <<ONLINE, SUSPENDED>>, <<SUSPENDED, ONLINE>>}
        \cup {<<st, OFFLINE>> : st \in StatusSet}

C6_LegalTransitions ==
    /\ Status = OFFLINE
    /\ [][Status' # Status => <<Status, Status'>> \in LegalTransitions]_vars

\* a WarmMS call waits while a Freeze(stop) is in progress
C6_Witness == Status = STOPPING /\ \E p \in Procs : pc[p] = "warmBlocked"

C8_HibernatedSecond ==
    [][dur' = dur + 1 =>
          /\ (Status = ONLINE /\ ~Suspended) => hibeDur' = hibeDur
          /\ ~(Status = ONLINE /\ ~Suspended) => hibeDur' = hibeDur + 1]_vars

\* one second counted as hibernated and one as warm
C8_Witness == dur = 2 /\ hibeDur = 1

\* C9: a JOIN that fails the whitelist check (no major error latched) gets the
\* permission-denied reply and is closed; its handler never calls WarmMS, never
\* dials, starts no relay and leaves Status, Suspended and ConnCount unchanged.
C9_WhitelistReject ==
    /\ [](\A h \in Clients :
            (req[h] = JOIN /\ ~wl[h]) =>
                /\ ~warmed[h]
                /\ ~dialed[h]
                /\ s2c[h] = "none"
                /\ c2s[h] = "none"
                /\ pc[h] = "done" => closed[h] /\ reply[h] \in {"denied", "major"})
    /\ [][\A h \in Clients :
            (/\ pc[h] = "chkMajor"
             /\ pc'[h] # "chkMajor"
             /\ req[h] = JOIN
             /\ ~wl[h]
             /\ ~MajorError) =>
                /\ reply'[h] = "denied"
                /\ closed'[h]
                /\ pc'[h] = "done"
                /\ UNCHANGED <<Status, Suspended, ConnCount>>]_vars

\* a JOIN was denied while the backend is suspended
C9_Witness ==
    \E h \in Clients :
        /\ reply[h] = "denied"
        /\ closed[h]
        /\ ~warmed[h]
        /\ Status = SUSPENDED

\* C10: an INFO request handled while the backend is not (ONLINE and not
\* suspended) never calls WarmMS and never dials; its handler leaves the
\* lifecycle state unchanged, sends a canned status reply (the suspended,
\* starting and stopping ones only in that state), answers the PING and closes.
CannedInfo == {"suspended", "hibernation", "starting", "stopping"}

InfoColdPcs == {"info78", "info78b", "info80", "info82", "info84"}

C10_ColdInfo ==
    /\ [](\A h \in Clients :
            req[h] = INFO =>
                /\ ~warmed[h]
                /\ (pc[h] \in InfoColdPcs \/ reply[h] \in CannedInfo) =>
                      ~dialed[h] /\ s2c[h] = "none" /\ c2s[h] = "none"
                /\ reply[h] \in CannedInfo => closed[h] /\ pc[h] = "done"
                /\ pinged[h] => reply[h] \in CannedInfo \cup {"major"})
    /\ [][\A h \in Clients :
            /\ (pc[h] = "info66" /\ pc'[h] # "info66" /\ Status # ONLINE)
                  => pc'[h] = "info78"
            /\ (pc[h] = "info66b" /\ pc'[h] # "info66b" /\ Suspended)
                  => pc'[h] = "info78"
            /\ (pc[h] \in InfoColdPcs /\ pc'[h] # pc[h]) =>
                  /\ pc'[h] \in InfoColdPcs \cup {"done"}
                  /\ UNCHANGED <<Status, Suspended, MajorError, procs, ConnCount>>
                  /\ pc'[h] = "done" =>
                        /\ reply'[h] \in CannedInfo
                        /\ closed'[h]
                        /\ reply'[h] = "suspended" => Status = SUSPENDED \/ Suspended
                        /\ reply'[h] = "starting" => Status = STARTING
                        /\ reply'[h] = "stopping" => Status = STOPPING
                        /\ pc[h] = "info80" => reply'[h] = "hibernation"]_vars

\* cold INFO: hibernation reply and PING answer, backend never launched
C10_Witness ==
    \E h \in Clients :
        /\ req[h] = INFO
        /\ reply[h] = "hibernation"
        /\ pinged[h]
        /\ closed[h]
        /\ Status = OFFLINE
        /\ procs = 0

\* C11: cold JOIN.  A whitelisted JOIN whose handler reads a Status in
\* {OFFLINE, STARTING, STOPPING} at the cold case of the switch calls WarmMS,
\* once; when the call returns the handler writes one JOIN reply ("Server start
\* command issued..." if WarmMS succeeded, the warm-error text if it failed),
\* closes the client connection and returns; it never dials the backend,
\* starts no relay and does not change ConnCount.
C11_ColdJoin ==
    /\ [](\A h \in Clients :
            /\ jb[h] = "C" =>
                  /\ req[h] = JOIN /\ wl[h] /\ warmed[h] /\ reply[h] = "none"
                  /\ ~dialed[h] /\ s2c[h] = "none" /\ c2s[h] = "none"
            /\ reply[h] = "wait" =>
                  /\ pc[h] = "done" /\ closed[h] /\ warmed[h]
                  /\ ~dialed[h] /\ s2c[h] = "none" /\ c2s[h] = "none")
    /\ [][\A h \in Clients :
            /\ (/\ pc[h] = "join152"
                /\ pc'[h] # "join152"
                /\ Status \in {OFFLINE, STARTING, STOPPING})
                  => CallsWarm(h) /\ jb'[h] = "C"
            /\ CallsWarm(h) => ~warmed[h]
            /\ (jb[h] = "C" /\ pc[h] \in WarmPcs /\ pc'[h] \notin WarmPcs) =>
                  /\ pc'[h] = "done"
                  /\ closed'[h]
                  /\ reply'[h] \in {"wait", "warmerr"}
                  /\ reply'[h] = "wait" => Status' = ONLINE /\ ~Suspended'
                  /\ reply'[h] = "warmerr" => MajorError'
                  /\ ~dialed'[h]
                  /\ UNCHANGED ConnCount
            /\ (pc[h] = "done" /\ reply[h] \in {"wait", "warmerr"} /\ conns' = conns)
                  => UNCHANGED <<pc[h], reply[h], closed[h], dialed[h], s2c[h], c2s[h]>>]_vars

\* a cold JOIN was answered "please wait" after the backend came online
C11_Witness ==
    \E h \in Clients :
        /\ req[h] = JOIN
        /\ reply[h] = "wait"
        /\ closed[h]
        /\ warmed[h]
        /\ ~dialed[h]
        /\ Status = ONLINE
        /\ procs = 1

\* C12: suspended JOIN.  A whitelisted JOIN whose handler reads
\* Status = SUSPENDED (or Suspended) calls WarmMS; a WarmMS that finds the
\* backend suspended resumes it and launches nothing; the handler dials only
\* after WarmMS has returned without error, and the server->client relay of the
\* connection then runs ConnCount++ once; if WarmMS fails the client gets the
\* warm-error reply, is closed, and nothing is dialed.
C12_SuspendedJoin ==
    /\ [](\A h \in Clients :
            /\ jb[h] = "S" => req[h] = JOIN /\ wl[h] /\ warmed[h] /\ ~dialed[h]
            /\ (req[h] = JOIN /\ dialed[h]) => warmed[h] /\ reply[h] # "warmerr"
            /\ reply[h] = "warmerr" =>
                  /\ pc[h] = "done" /\ closed[h]
                  /\ ~dialed[h] /\ s2c[h] = "none" /\ c2s[h] = "none")
    /\ [][/\ \A h \in Clients :
              /\ (pc[h] = "join131" /\ pc'[h] # "join131" /\ Status = SUSPENDED)
                    => CallsWarm(h) /\ jb'[h] = "S"
              /\ (pc[h] = "join131b" /\ pc'[h] # "join131b" /\ Suspended)
                    => CallsWarm(h) /\ jb'[h] = "S"
              /\ (jb[h] = "S" /\ pc[h] \in WarmPcs /\ pc'[h] \notin WarmPcs) =>
                    \/ /\ pc'[h] = "dial"
                       /\ Status' = ONLINE /\ ~Suspended'
                       /\ reply'[h] = "none" /\ ~closed'[h]
                    \/ /\ pc'[h] = "done"
                       /\ reply'[h] = "warmerr" /\ closed'[h]
              /\ s2c'[h] = "entry" /\ s2c[h] # "entry" => Dials(h)
              /\ s2c'[h] = "incW" /\ s2c[h] # "incW" =>
                    s2c[h] = "entry" /\ req[h] = JOIN /\ tmp'[h] = ConnCount
              /\ s2c[h] = "incW" /\ s2c'[h] # "incW" =>
                    s2c'[h] = "run" /\ ConnCount' = tmp[h] + 1
       /\ \A p \in Procs :
              /\ (/\ pc[p] = "warmCall"
                  /\ pc'[p] # "warmCall"
                  /\ Status = SUSPENDED \/ Suspended)
                    => pc'[p] = "warmResume" /\ ~Suspended' /\ ~Launches
              /\ (pc[p] = "warmResume" /\ pc'[p] # "warmResume")
                    => Status' = ONLINE /\ ~Suspended' /\ ~Launches]_vars

\* the WarmMS call of a JOIN that found the backend suspended is resuming it,
\* the one backend process that was launched before still being the only one
C12_Witness ==
    \E h \in Clients :
        /\ req[h] = JOIN
        /\ jb[h] = "S"
        /\ pc[h] = "warmResume"
        /\ mu = "warm"
        /\ Status = SUSPENDED
        /\ procs = 1
        /\ ~dialed[h]

\* C14: a FOREIGN request (no major error seen by its handler) is proxied only
\* if its handler reads Status = ONLINE, and then neither relay of the pair
\* changes ConnCount; with any other Status the handler closes the client
\* connection and returns, without a dial, a WarmMS call or a reply.
C14_Foreign ==
    /\ [](\A h \in Clients :
            req[h] = FOREIGN =>
                /\ ~warmed[h]
                /\ s2c[h] \in {"none", "entry", "run", "done"}
                /\ tmp[h] = 0
                /\ (pc[h] = "done" /\ ~dialed[h] /\ reply[h] # "major") =>
                      /\ closed[h] /\ reply[h] = "none"
                      /\ s2c[h] = "none" /\ c2s[h] = "none")
    /\ [][\A h \in Clients :
            req[h] = FOREIGN =>
                /\ (pc[h] = "foreign205" /\ pc'[h] # "foreign205") =>
                      IF Status = ONLINE
                      THEN pc'[h] = "dial" /\ ~closed'[h] /\ reply'[h] = "none"
                      ELSE /\ pc'[h] = "done" /\ closed'[h] /\ reply'[h] = "none"
                           /\ ~dialed'[h] /\ ~warmed'[h]
                /\ (pc'[h] = "dial" /\ pc[h] # "dial") =>
                      pc[h] = "foreign205" /\ Status = ONLINE
                /\ Dials(h) => pc[h] = "dial"
                /\ (s2c'[h] # s2c[h] \/ c2s'[h] # c2s[h]) => UNCHANGED ConnCount]_vars

\* a foreign request was proxied and its pair has ended, ConnCount untouched
C14_Witness ==
    \E h \in Clients :
        /\ req[h] = FOREIGN
        /\ dialed[h]
        /\ s2c[h] = "done"
        /\ c2s[h] = "done"
        /\ ConnCount = 0
        /\ timer = -1
        /\ armings = 0

\* C15: the handler of a request that cannot be classified (UNKNOWN, or a
\* classification error) has, when it returns, sent the "unknown request" reply
\* (the major-error reply if one is latched) and closed the client connection,
\* without a WarmMS call or a dial.
C15_UnclassifiedClosed ==
    \A h \in Clients :
        (pc[h] = "done" /\ req[h] = UNKNOWN) =>
            /\ reply[h] \in {"unknown", "major"}
            /\ closed[h]
            /\ ~warmed[h]
            /\ ~dialed[h]

\* C16: after a dial failure in openProxy the client has the "can't connect"
\* reply, the client connection is closed, no relay runs for it, and the
\* failing step leaves ConnCount and MajorError unchanged.
C16_DialFailure ==
    /\ [](\A h \in Clients :
            reply[h] = "cantconnect" =>
                /\ closed[h]
                /\ pc[h] = "done"
                /\ s2c[h] = "none" /\ c2s[h] = "none")
    /\ [][\A h \in Clients :
            (reply'[h] = "cantconnect" /\ reply[h] # "cantconnect")
                => UNCHANGED <<ConnCount, MajorError>>]_vars

\* no client is being handled, no relay is running, and no more will connect
Quiet ==
    /\ conns = MaxConns
    /\ \A h \in Clients :
          /\ pc[h] \in {"idle", "done"}
          /\ c2s[h] \in {"none", "done"}
          /\ s2c[h] \in {"none", "done", "sched"}

\* the last JOIN relay has just decremented ConnCount to 0 on an ONLINE backend
IdleStart ==
    /\ Quiet
    /\ \E h \in Clients : s2c[h] = "sched"
    /\ ConnCount = 0
    /\ Status = ONLINE
    /\ ~MajorError

\* C13: idle freeze.  When ConnCount has dropped to 0 on an ONLINE backend and
\* no client connects afterwards, the backend is eventually frozen (unless it
\* crashes first): with SuspendAllow it is suspended and Status becomes
\* SUSPENDED, without it Status becomes STOPPING and then OFFLINE.
C13_IdleFreeze ==
    /\ IdleStart ~> (\/ MajorError
                     \/ SuspendAllow /\ Status = SUSPENDED /\ Suspended
                     \/ ~SuspendAllow /\ Status = STOPPING)
    /\ (Status = STOPPING) ~> (Status = OFFLINE)

\* the timer armed by the last disconnect has fired and Freeze(stop) is running
C13_Witness ==
    /\ Quiet
    /\ \A h \in Clients : s2c[h] # "sched"
    /\ ConnCount = 0
    /\ firesSince = 1
    /\ ~SuspendAllow
    /\ Status = STOPPING
    /\ ~MajorError

\* C17: symmetric teardown.  A relay that leaves its loop on an error has
\* closed the sockets of the pair, and once one relay of a pair has left its
\* loop the other one eventually returns as well (as does the first).
C17_SymmetricTeardown ==
    /\ [][\A h \in Clients :
            (\/ s2c[h] = "run" /\ s2c'[h] # "run"
             \/ c2s[h] = "run" /\ c2s'[h] # "run") => ~sock'[h]]_vars
    /\ \A h \in Clients :
          /\ (c2s[h] = "done" /\ s2c[h] # "done") ~> (s2c[h] = "done")
          /\ (s2c[h] \in {"decR", "decW", "sched", "done"} /\ c2s[h] = "run")
                ~> (c2s[h] = "done")

\* the client->server relay has returned and closed the sockets while the
\* server->client relay of a JOIN is still in its loop
C17_Witness ==
    \E h \in Clients :
        /\ c2s[h] = "done"
        /\ s2c[h] = "run"
        /\ ~sock[h]
        /\ req[h] = JOIN
        /\ ConnCount = 1

\* C20: every step that changes ConnCount is taken by a relay that holds
\* servstats.Stats.M, and every step that changes BytesToClients or
\* BytesToServer is taken by the holder of M.
C20_MutationsUnderM ==
    [][/\ ConnCount' # ConnCount =>
             \E h \in Clients : M = <<"s2c", h>> /\ s2c'[h] # s2c[h]
       /\ (BytesToClients' # BytesToClients \/ BytesToServer' # BytesToServer) =>
             M # Unlocked]_vars

\* the part that does hold: the byte counters are changed only by the holder
\* of M, which unlocks in the same step
BytesUnderM ==
    [][(BytesToClients' # BytesToClients \/ BytesToServer' # BytesToServer) =>
             M # Unlocked /\ M' = Unlocked]_vars

\* the dot-separated components of a version string, read off the positions
\* of its dots
DotsOf(v) == {i \in 1..Len(v) : v[i] = "."}

NComp(v) == Cardinality(DotsOf(v)) + 1

\* position of the k-th dot; 0 and Len(v) + 1 bound the first and the last
DotAt(v, k) ==
    IF k = 0 THEN 0
    ELSE IF k > Cardinality(DotsOf(v)) THEN Len(v) + 1
    ELSE CHOOSE i \in DotsOf(v) : Cardinality({j \in DotsOf(v) : j < i}) = k - 1

Comp(v, k) == [i \in 1..(DotAt(v, k) - DotAt(v, k - 1) - 1) |-> v[DotAt(v, k - 1) + i]]

IsDecimal(c) == Len(c) > 0 /\ \A i \in 1..Len(c) : c[i] \in {"0", "1"}

RECURSIVE Pow10(_)
Pow10(e) == IF e = 0 THEN 1 ELSE 10 * Pow10(e - 1)

RECURSIVE SumDigits(_, _)
SumDigits(c, i) ==
    IF i > Len(c) THEN 0
    ELSE (IF c[i] = "1" THEN Pow10(Len(c) - i) ELSE 0) + SumDigits(c, i + 1)

\* the first three components are decimal integers, the missing ones aside
WellFormed(v) == \A k \in 1..3 : k <= NComp(v) => IsDecimal(Comp(v, k))

\* (major, minor, patch), a missing component counting as 0
Triple(v) == [k \in 1..3 |-> IF k <= NComp(v) THEN SumDigits(Comp(v, k), 1) ELSE 0]

LexLess(t, u) == \E k \in 1..3 : t[k] < u[k] /\ \A j \in 1..(k - 1) : t[j] = u[j]

C19_CompareVersionsError ==
    (cmpOut # <<>> /\ (~WellFormed(version1) \/ ~WellFormed(version2))) =>
        cmpOut = <<FALSE, FALSE, TRUE>>

\* a relay of pair h has relayed a chunk in this step (it goes on to count it)
RelaysChunk(h) ==
    \/ s2c[h] = "run" /\ s2c'[h] = "cnt"
    \/ c2s[h] = "run" /\ c2s'[h] = "cnt"

\* the server->client relay of h stores the decremented ConnCount in this step
Decrements(h) == s2c[h] = "decW" /\ s2c'[h] = "sched"

\* C21: for every JOIN proxy pair, no chunk is relayed in either direction
\* before the pair's ConnCount++ has been stored, and ConnCount-- is stored only
\* after the client->server relay of the pair has returned too.
C21_CountBrackets ==
    [][\A h \in Clients : req[h] = JOIN =>
          /\ RelaysChunk(h) => s2c[h] \notin {"entry", "incW"}
          /\ Decrements(h) => c2s[h] = "done"]_vars

\* the half about the increment alone
C21_IncrementFirst ==
    [][\A h \in Clients : (req[h] = JOIN /\ RelaysChunk(h)) =>
          s2c[h] \notin {"entry", "incW"}]_vars

\* the half about the decrement alone
C21_DecrementLast ==
    [][\A h \in Clients : (req[h] = JOIN /\ Decrements(h)) => c2s[h] = "done"]_vars

\* the server->client relay of h has a ConnCount++ or ConnCount-- still to do
\* or half done
InFlight(h) == s2c[h] \in {"entry", "incW", "decR", "decW"}

\* the JOIN proxy pairs whose server->client relay is in its loop
RunningJoins == {h \in Clients : req[h] = JOIN /\ s2c[h] = "run"}

\* no relay goroutine of any pair is running
AllTornDown == \A h \in Clients : s2c[h] \in {"none", "done"} /\ c2s[h] \in {"none", "done"}

\* C22: when no increment or decrement is in flight, ConnCount is the number of
\* JOIN proxy pairs whose server->client relay is running; in particular
\* ConnCount = 0 when every proxy pair has torn down.
C22_CountMatchesRelays ==
    /\ AllTornDown => ConnCount = 0
    /\ (\A h \in Clients : ~InFlight(h)) => ConnCount = Cardinality(RunningJoins)

\* the same for a single JOIN pair at a time, where no two read-modify-writes
\* of ConnCount overlap
C22_OnePairAtATime ==
    (Cardinality({h \in Clients : req[h] = JOIN /\ s2c[h] # "none"}) <= 1
        /\ \A h \in Clients : ~InFlight(h)) =>
            ConnCount = Cardinality(RunningJoins)

\* the positions a server->client relay goes through, one after the other: with
\* the accounting of a JOIN, and without it
JoinPath ==
    {<<"entry", "incW">>, <<"incW", "run">>, <<"run", "decR">>, <<"decR", "decW">>,
     <<"decW", "sched">>, <<"sched", "done">>}

PlainPath == {<<"entry", "run">>, <<"run", "done">>}

\* the launch of a relay by openProxy and the reuse of its slot by Accept
LaunchOrReuse == {<<"none", "entry">>, <<"done", "none">>}

\* the timer is armed in this step
Arms ==
    \/ timer' > timer
    \/ sinceSched' < sinceSched
    \/ firesSince' < firesSince
    \/ armings' # armings

\* C23: ConnCount is changed only by the server->client relay of a JOIN proxy,
\* by +1 once on entry and by -1 once on exit, and FreezeMSSchedule is called
\* only by that relay, once, after its decrement; the client->server relay and
\* both relays of an INFO or FOREIGN proxy change neither ConnCount nor the timer.
C23_OneOwner ==
    [][/\ ConnCount' # ConnCount =>
             \E h \in Clients :
                 /\ req[h] = JOIN
                 /\ c2s'[h] = c2s[h]
                 /\ \/ s2c[h] = "incW" /\ s2c'[h] = "run" /\ ConnCount' = tmp[h] + 1
                    \/ s2c[h] = "decW" /\ s2c'[h] = "sched" /\ ConnCount' = tmp[h] - 1
       /\ Arms => \E h \in Clients :
                      req[h] = JOIN /\ s2c[h] = "sched" /\ s2c'[h] = "done"
       /\ \A h \in Clients :
             /\ s2c'[h] # s2c[h] =>
                   /\ <<s2c[h], s2c'[h]>> \in
                         LaunchOrReuse \cup (IF req[h] = JOIN THEN JoinPath ELSE PlainPath)
                   /\ (s2c[h] = "sched" /\ s2c'[h] = "done") =>
                         timer' = IdleTicks /\ sinceSched' = 0
             /\ (c2s'[h] # c2s[h] \/ (req[h] # JOIN /\ s2c'[h] # s2c[h])) =>
                   UNCHANGED <<ConnCount, timer, sinceSched, firesSince, armings>>]_vars

\* a JOIN pair was counted, uncounted and has scheduled the freeze, while the
\* server->client relay of an INFO or FOREIGN proxy is in its loop
C23_Witness ==
    \E h, g \in Clients :
        /\ req[h] = JOIN
        /\ s2c[h] = "done"
        /\ c2s[h] = "done"
        /\ req[g] \in {INFO, FOREIGN}
        /\ s2c[g] = "run"
        /\ ConnCount = 0
        /\ timer = IdleTicks

\* the server->client relay of h calls FreezeMSSchedule in this step
Schedules(h) == s2c[h] = "sched" /\ s2c'[h] = "done"

\* C24: FreezeMSSchedule is called, and the idle-freeze timer armed, only when
\* ConnCount = 0.
C24_ArmedOnlyAtZero ==
    [][(Arms \/ \E h \in Clients : Schedules(h)) => ConnCount = 0]_vars

\* the same in terms of the pairs: FreezeMSSchedule is not called while another
\* JOIN proxy pair is connected and counted
C24_NoOtherPairConnected ==
    [][\A h \in Clients : Schedules(h) =>
          \A g \in Clients \ {h} : ~(req[g] = JOIN /\ s2c[g] = "run" /\ sock[g])]_vars

\* the firing of the timer invokes Freeze in this step
TimerFreezes == Fires /\ (mu' = "idleFreeze" \/ Status' = STOPPING)

C26_ActsOnFreshStatus ==
    [][\A h \in Clients : (req[h] = JOIN /\ ReturnsWarmOk(h)) =>
          IF Status' = ONLINE /\ ~Suspended'
          THEN pc'[h] = "dial"
          ELSE reply'[h] = "wait" /\ closed'[h]]_vars

\* what the handler does instead: its next action is fixed by the case of the
\* switch it entered before it called WarmMS
C26_ActsOnBranch ==
    [][\A h \in Clients : (req[h] = JOIN /\ ReturnsWarmOk(h)) =>
          IF jb[h] = "C"
          THEN reply'[h] = "wait" /\ closed'[h] /\ pc'[h] = "done"
          ELSE pc'[h] = "dial"]_vars

\* a step of HandlerClientConn for h outside its call of WarmMS (openProxy
\* included)
HandlerStep(h) == pc[h] \notin WarmPcs /\ pc'[h] # pc[h]

\* a step of one of the two forwardTCP goroutines of h
RelayStep(h) == s2c'[h] # s2c[h] \/ c2s'[h] # c2s[h]

\* C27: no step of HandlerClientConn outside WarmMS, of openProxy or of
\* forwardTCP changes Status, Suspended or MajorError; so a classification
\* error, a whitelist reject, a dial failure and a relay error leave them as
\* they are.
C27_ErrorsStayLocal ==
    [][(conns' # conns \/ \E h \in Clients : HandlerStep(h) \/ RelayStep(h)) =>
          UNCHANGED <<Status, Suspended, MajorError>>]_vars

\* a dial failure and a whitelist reject have been answered, and the server is
\* still ONLINE, not suspended and without a major error
C27_Witness ==
    \E h, g \in Clients :
        /\ reply[h] = "cantconnect"
        /\ reply[g] = "denied"
        /\ Status = ONLINE
        /\ ~Suspended
        /\ ~MajorError

\* a relay error has torn a JOIN pair down on an ONLINE server with no major error
C27_RelayErrorWitness ==
    \E h \in Clients :
        /\ req[h] = JOIN
        /\ s2c[h] = "done"
        /\ c2s[h] = "done"
        /\ Status = ONLINE
        /\ ~Suspended
        /\ ~MajorError

\* the handler of h writes its canned INFO reply in this step
SendsCanned(h) == req[h] = INFO /\ pc[h] \in InfoColdPcs /\ pc'[h] = "done"

\* C28: the canned INFO reply matches the lifecycle state as it was when the
\* handler decided not to proxy: the hibernation message is sent only if Status
\* was OFFLINE then, the starting message only if it was STARTING, the stopping
\* message only if it was STOPPING, and the suspended message only if Status was
\* SUSPENDED or Suspended was set.
C28_ReplyMatchesObservation ==
    [][\A h \in Clients : SendsCanned(h) =>
          /\ reply'[h] = "hibernation" => obs[h][1] = OFFLINE
          /\ reply'[h] = "starting" => obs[h][1] = STARTING
          /\ reply'[h] = "stopping" => obs[h][1] = STOPPING
          /\ reply'[h] = "suspended" => (obs[h][1] = SUSPENDED \/ obs[h][2])]_vars

\* the hibernation message alone: sent only if Status was OFFLINE at the
\* decision or is OFFLINE at the read of line 80
C28_HibernationOnlyOffline ==
    [][\A h \in Clients : (SendsCanned(h) /\ reply'[h] = "hibernation") =>
          (obs[h][1] = OFFLINE \/ Status = OFFLINE)]_vars

====
